---- MODULE Spec2Model ----
(***************************************************************************)
(* A model of ollama_transfer.py: the module-level path resolution, the    *)
(* line-mode selection prompt, the manifest locator and parser, the        *)
(* exporter (copy_files) and the orchestrator (main).                      *)
(*                                                                         *)
(* Text is modelled as a tuple of characters, so that str.split and        *)
(* str.replace are computed and not assumed.  A path is a tuple of         *)
(* segments, each segment a piece of text; the fixed segments of the       *)
(* layout ("manifests", "blobs", ...) are written as one-character texts.  *)
(* The file system is the pair (fs, dirs): fs maps every existing file to  *)
(* its content, dirs is the set of existing directories.                   *)
(***************************************************************************)
EXTENDS Integers, Sequences, FiniteSets, TLC

VARIABLES
    pc,                     \* position of the program
    system,                 \* platform.system()
    CUSTOM_OUTPUT_DIR,      \* line 14 (the empty path is the empty string)
    CUSTOM_OLLAMA_BASE_DIR, \* line 15
    OUTPUT_DIR,             \* lines 23, 40-41
    OLLAMA_BASE_DIR,        \* lines 26-43
    fs,                     \* existing files and their contents
    dirs,                   \* existing directories
    fs0,                    \* the files when the program started (history)
    dirs0,                  \* the directories when the program started (history)
    models,                 \* main: models (rows of `ollama list`)
    choice_input,           \* the last answer given to the selection interface
    last_msg,               \* the last message of the numeric prompt
    selected_models,        \* main: selected_models
    model_data,             \* main: model_data
    preview,                \* what the preview printed (lines 235-245)
    response,               \* the last answer given to prompt_copy
    calls,                  \* history: one record per call of copy_files
    exit_kind,              \* how the run ended ("" while it runs)
    faults,                 \* file-system failures injected so far
    manifest,               \* the parser on its own: the JSON document it is handed
    digests                 \* the parser on its own: what it returned

vars == <<pc, system, CUSTOM_OUTPUT_DIR, CUSTOM_OLLAMA_BASE_DIR, OUTPUT_DIR,
          OLLAMA_BASE_DIR, fs, dirs, fs0, dirs0, models, choice_input, last_msg,
          selected_models, model_data, preview, response, calls, exit_kind,
          faults, manifest, digests>>

(***************************************************************************)
(* Bounds of the model.                                                    *)
(***************************************************************************)
MaxLine == 3        \* characters of a line typed at the numeric prompt
MaxChoices == 2     \* rows marked in the picker
MaxLayers == 2      \* layers of a manifest handed to the parser on its own
MaxFaults == 1      \* injected file-system failures in one run

(***************************************************************************)
(* Text.                                                                   *)
(***************************************************************************)
EmptyStr == << >>

\* str.split(sep): the pieces between the separators, empty pieces kept.
RECURSIVE Split(_, _)
Split(s, sep) ==
    IF \A i \in DOMAIN s : s[i] # sep
    THEN <<s>>
    ELSE LET k == CHOOSE i \in DOMAIN s :
                     s[i] = sep /\ \A j \in 1..(i - 1) : s[j] # sep
         IN <<SubSeq(s, 1, k - 1)>> \o Split(SubSeq(s, k + 1, Len(s)), sep)

\* str.replace(old, new) for one-character old and new.
Replace(s, old, new) == [i \in DOMAIN s |-> IF s[i] = old THEN new ELSE s[i]]

\* digest.replace(":", "-"): the blob's file name.
BlobFileName(digest) == Replace(digest, ":", "-")

\* The value of response before prompt_copy has read a line.
NotAsked == <<"not asked">>

(***************************************************************************)
(* Paths.                                                                  *)
(***************************************************************************)
Seg(t) == <<t>>
NoPath == << >>

\* pathlib's "/" operator.
Join(p, q) == p \o q

Ancestors(p) == {SubSeq(p, 1, k) : k \in 1..Len(p)}

Exists(p) == p \in DOMAIN fs \/ p \in dirs

HomeDir == <<Seg("/"), Seg("home"), Seg("user")>>
HomeModels == Join(HomeDir, <<Seg(".ollama"), Seg("models")>>)
VarLibOllama == <<Seg("/"), Seg("var"), Seg("lib"), Seg("ollama")>>
VarLibOllamaModels == Join(VarLibOllama, <<Seg("models")>>)
UsrShareModels == <<Seg("/"), Seg("usr"), Seg("share"), Seg("ollama"), Seg("models")>>
DefaultOutputDir == <<Seg("ollama")>>
CustomRoot == <<Seg("/"), Seg("mnt"), Seg("export")>>

BLOBS == <<Seg("blobs")>>
LIBRARY == <<Seg("manifests"), Seg("registry.ollama.ai"), Seg("library")>>

Systems == {"Darwin", "Windows", "Linux", "FreeBSD"}

\* Lines 26-38: the source root chosen from the platform.
PlatformBaseDir(sys, existing) ==
    IF sys = "Darwin" THEN HomeModels
    ELSE IF sys = "Windows" THEN HomeModels
    ELSE IF Join(VarLibOllama, BLOBS) \in existing THEN VarLibOllama
    ELSE IF Join(VarLibOllamaModels, BLOBS) \in existing THEN VarLibOllama
    ELSE UsrShareModels

\* Lines 23, 40-41.
ResolveOutputDir(customOut) ==
    IF customOut # NoPath THEN customOut ELSE DefaultOutputDir

\* Lines 26-43.
ResolveBaseDir(sys, existing, customBase) ==
    IF customBase # NoPath THEN customBase ELSE PlatformBaseDir(sys, existing)

\* Lines 46-47.
OLLAMA_MANIFEST_DIR == Join(OLLAMA_BASE_DIR, LIBRARY)
OLLAMA_BLOB_DIR == Join(OLLAMA_BASE_DIR, BLOBS)

\* The module-level code, run when the script is loaded (lines 14-47).
Import ==
    /\ pc = "import"
    /\ OUTPUT_DIR' = ResolveOutputDir(CUSTOM_OUTPUT_DIR)
    /\ OLLAMA_BASE_DIR' = ResolveBaseDir(system, dirs, CUSTOM_OLLAMA_BASE_DIR)
    /\ pc' = "main"
    /\ UNCHANGED <<system, CUSTOM_OUTPUT_DIR, CUSTOM_OLLAMA_BASE_DIR, fs, dirs, fs0,
                   dirs0, models, choice_input, last_msg, selected_models,
                   model_data, preview, response, calls, exit_kind, faults, manifest, digests>>

(***************************************************************************)
(* The inventory (get_installed_models, lines 49-74).                      *)
(***************************************************************************)
Name_a1 == <<"a", ":", "1">>
Name_a1x == <<"a", ":", "1", ":", "x">>
Name_b1 == <<"b", ":", "1">>
Name_c == <<"c">>

Row(name) == <<name, "id", "1.0 GB", "2 days ago">>

\* What `ollama list` reports on the modelled machine, sorted by name.
InstalledModels == <<Row(Name_a1), Row(Name_a1x), Row(Name_b1), Row(Name_c)>>

\* Lines 49-74.  The outcome of get_installed_models: "exit" when the command is
\* missing or fails (lines 53-58), otherwise the rows, possibly none.  The
\* parsing of the command's output is not modelled: no property below reads it.
InventoryOutcomes ==
    {[exit |-> TRUE, rows |-> << >>],
     [exit |-> FALSE, rows |-> << >>],
     [exit |-> FALSE, rows |-> InstalledModels]}

(***************************************************************************)
(* The numeric prompt (choose_models_text, lines 76-109).                  *)
(***************************************************************************)
Alphabet == {"0", "1", "3", ",", "-", " ", "a", "l", "A"}
Digits == {"0", "1", "3"}

DigitValue(c) ==
    CASE c = "0" -> 0 [] c = "1" -> 1 [] c = "3" -> 3

\* str.strip(): leading and trailing blanks removed.
RECURSIVE Strip(_)
Strip(s) ==
    IF s = EmptyStr THEN s
    ELSE IF s[1] = " " THEN Strip(Tail(s))
    ELSE IF s[Len(s)] = " " THEN Strip(SubSeq(s, 1, Len(s) - 1))
    ELSE s

\* str.lower().
Lower(s) ==
    [i \in DOMAIN s |->
        CASE s[i] = "A" -> "a" [] s[i] = "Y" -> "y" [] s[i] = "N" -> "n"
          [] OTHER -> s[i]]

RECURSIVE DecimalValue(_)
DecimalValue(ds) ==
    IF ds = EmptyStr THEN 0
    ELSE 10 * DecimalValue(SubSeq(ds, 1, Len(ds) - 1)) + DigitValue(ds[Len(ds)])

\* int(text): ok is FALSE where Python raises ValueError.
ParseInt(text) ==
    LET t == Strip(text)
        neg == t # EmptyStr /\ t[1] = "-"
        ds == IF neg THEN Tail(t) ELSE t
    IN IF ds # EmptyStr /\ \A i \in DOMAIN ds : ds[i] \in Digits
       THEN [ok |-> TRUE, val |-> IF neg THEN 0 - DecimalValue(ds) ELSE DecimalValue(ds)]
       ELSE [ok |-> FALSE, val |-> 0]

NoMsg == [text |-> "", arg |-> 0]

\* ValidateChoices as it would be if a choice out of range ended the loop and
\* the names accepted before it were returned.
RECURSIVE ValidateChoicesPartial(_, _, _, _)
ValidateChoicesPartial(rows, choices, i, selected) ==
    IF i > Len(choices) \/ ~(1 <= choices[i] /\ choices[i] <= Len(rows))
    THEN IF selected # << >>
         THEN [returned |-> TRUE, value |-> selected, msg |-> NoMsg]
         ELSE [returned |-> FALSE, value |-> << >>,
               msg |-> [text |-> "Invalid choice", arg |-> 0]]
    ELSE ValidateChoicesPartial(rows, choices, i + 1,
                                Append(selected, rows[choices[i]][1]))

\* Lines 98-107: the loop over the choices, from position i with the names
\* selected so far.  Returns at the first choice out of range (break).
RECURSIVE ValidateChoices(_, _, _, _)
ValidateChoices(rows, choices, i, selected) ==
    IF i > Len(choices)
    THEN IF selected # << >>
         THEN [returned |-> TRUE, value |-> selected, msg |-> NoMsg]
         ELSE [returned |-> FALSE, value |-> << >>, msg |-> NoMsg]
    ELSE IF 1 <= choices[i] /\ choices[i] <= Len(rows)
    THEN ValidateChoices(rows, choices, i + 1, Append(selected, rows[choices[i]][1]))
    ELSE [returned |-> FALSE, value |-> << >>,
          msg |-> [text |-> "Invalid choice", arg |-> choices[i]]]

\* Lines 85-109: one pass of the prompt's loop on the line typed.  returned is
\* FALSE when the loop goes round again.
ChooseModelsTextStep(rows, line) ==
    LET input == Strip(line)
        pieces == Split(input, ",")
        parsed == [i \in DOMAIN pieces |-> ParseInt(pieces[i])]
    IN IF input = EmptyStr
       THEN [returned |-> TRUE, value |-> << >>, msg |-> NoMsg]
       ELSE IF Lower(input) = <<"a", "l", "l">>
       THEN [returned |-> TRUE, value |-> [i \in DOMAIN rows |-> rows[i][1]],
             msg |-> NoMsg]
       ELSE IF \E i \in DOMAIN parsed : ~parsed[i].ok
       THEN [returned |-> FALSE, value |-> << >>,
             msg |-> [text |-> "Please enter valid number(s) or 'all'.", arg |-> 0]]
       ELSE ValidateChoices(rows, [i \in DOMAIN parsed |-> parsed[i].val], 1, << >>)

\* Lines 111-130: the picker returns the names of the rows it reports marked
\* (0-based indices).
ChooseModelsPicker(rows, selected_indices) ==
    IF selected_indices = << >> THEN << >>
    ELSE [i \in DOMAIN selected_indices |-> rows[selected_indices[i] + 1][1]]

SeqsUpTo(S, n) == UNION {[1..k -> S] : k \in 0..n}

InputLines == SeqsUpTo(Alphabet, MaxLine)

PickerResults(rows) ==
    {s \in SeqsUpTo(0..(Len(rows) - 1), MaxChoices) :
        \A i, j \in DOMAIN s : i # j => s[i] # s[j]}

\* The numeric prompt on its own, line 87: input() returns the line typed.
TypeLine ==
    /\ pc = "select_text"
    /\ \E line \in InputLines : choice_input' = line
    /\ last_msg' = NoMsg
    /\ pc' = "typed"
    /\ UNCHANGED <<system, CUSTOM_OUTPUT_DIR, CUSTOM_OLLAMA_BASE_DIR, OUTPUT_DIR,
                   OLLAMA_BASE_DIR, fs, dirs, fs0, dirs0, models,
                   selected_models, model_data, preview, response, calls, exit_kind, faults,
                   manifest, digests>>

\* The numeric prompt on its own, lines 88-109: the line is accepted and the
\* function returns, or the loop goes round and the line is forgotten.
ProcessLine ==
    /\ pc = "typed"
    /\ LET r == ChooseModelsTextStep(models, choice_input)
       IN /\ last_msg' = r.msg
          /\ IF r.returned
             THEN /\ selected_models' = r.value
                  /\ pc' = "selected"
                  /\ UNCHANGED choice_input
             ELSE /\ UNCHANGED selected_models
                  /\ pc' = "select_text"
                  /\ choice_input' = EmptyStr
    /\ UNCHANGED <<system, CUSTOM_OUTPUT_DIR, CUSTOM_OLLAMA_BASE_DIR, OUTPUT_DIR,
                   OLLAMA_BASE_DIR, fs, dirs, fs0, dirs0, models, model_data,
                   preview, response, calls, exit_kind, faults, manifest, digests>>

(***************************************************************************)
(* Manifests (find_manifest_path, parse_manifest, lines 132-154).          *)
(*                                                                         *)
(* A JSON object's optional key is a tuple of no or one value: the         *)
(* manifest {"config": {"digest": d}, "layers": [{}, {"digest": e}]} is    *)
(* [config |-> <<[digest |-> <<d>>]>>,                                     *)
(*  layers |-> <<<<[digest |-> << >>], [digest |-> <<e>>]>>>>].            *)
(***************************************************************************)
Digest_aa == <<"s", ":", "a", "a">>
Digest_bb == <<"s", ":", "b", "b">>
Digest_cc == <<"s", ":", "c", "c">>

None == << >>
Some(v) == <<v>>

\* dict.get(key, default); dict.get(key) is DictGet(opt, None) with the value
\* kept wrapped, None being the empty tuple.
DictGet(opt, default) == IF opt = None THEN default ELSE opt[1]

EmptyObject == [digest |-> None]
ObjectWith(d) == [digest |-> Some(d)]

\* Python's truth value of dict.get("digest"): None and "" are false.
Truthy(opt) == opt # None /\ opt[1] # EmptyStr

\* Lines 151-153: the loop over the layers.
RECURSIVE LayerDigests(_)
LayerDigests(layers) ==
    IF layers = << >> THEN << >>
    ELSE (IF Head(layers).digest # None THEN <<Head(layers).digest[1]>> ELSE << >>)
         \o LayerDigests(Tail(layers))

RECURSIVE WithoutRepeats(_)
WithoutRepeats(ds) ==
    IF ds = << >> THEN << >>
    ELSE LET front == WithoutRepeats(SubSeq(ds, 1, Len(ds) - 1))
             last == ds[Len(ds)]
         IN IF \E i \in DOMAIN front : front[i] = last THEN front ELSE Append(front, last)

\* ExtractDigests as it would be if a digest already listed were left out.
ExtractDigestsDeduplicated(doc) ==
    LET config_digest == DictGet(doc.config, EmptyObject).digest
    IN WithoutRepeats((IF Truthy(config_digest) THEN <<config_digest[1]>> ELSE << >>)
                      \o LayerDigests(DictGet(doc.layers, << >>)))

\* Lines 146-154: the digests of a loaded manifest.
ExtractDigests(doc) ==
    LET config_digest == DictGet(doc.config, EmptyObject).digest
    IN (IF Truthy(config_digest) THEN <<config_digest[1]>> ELSE << >>)
       \o LayerDigests(DictGet(doc.layers, << >>))

\* The contents a file can have, and json.load of each: ok is FALSE where
\* json.load raises.
Manifest_a1 ==
    [config |-> Some(ObjectWith(Digest_aa)),
     layers |-> Some(<<ObjectWith(Digest_bb), EmptyObject, ObjectWith(Digest_bb)>>)]
Manifest_b1 ==
    [config |-> None,
     layers |-> Some(<<ObjectWith(Digest_aa), ObjectWith(Digest_cc)>>)]

JsonLoad(content) ==
    CASE content = "manifest a:1" -> [ok |-> TRUE, doc |-> Manifest_a1]
      [] content = "manifest b:1" -> [ok |-> TRUE, doc |-> Manifest_b1]
      [] OTHER -> [ok |-> FALSE, doc |-> [config |-> None, layers |-> None]]

\* find_manifest_path as it would be if it took the first two parts of the
\* split instead of unpacking it.
FindManifestPathFirstTwoParts(model_name) ==
    LET parts == Split(model_name, ":")
    IN IF Len(parts) < 2
       THEN [raised |-> "IndexError", path |-> NoPath]
       ELSE LET manifest_path == Join(OLLAMA_MANIFEST_DIR, <<parts[1], parts[2]>>)
            IN IF ~Exists(manifest_path)
               THEN [raised |-> "SystemExit", path |-> manifest_path]
               ELSE [raised |-> "", path |-> manifest_path]

\* Lines 132-139.  raised is "ValueError" where the unpacking of the split
\* fails, "SystemExit" where exit(1) is called.
find_manifest_path(model_name) ==
    LET parts == Split(model_name, ":")
    IN IF Len(parts) # 2
       THEN [raised |-> "ValueError", path |-> NoPath]
       ELSE LET manifest_path == Join(OLLAMA_MANIFEST_DIR, <<parts[1], parts[2]>>)
            IN IF ~Exists(manifest_path)
               THEN [raised |-> "SystemExit", path |-> manifest_path]
               ELSE [raised |-> "", path |-> manifest_path]

\* Lines 141-154.  raised is "OSError" where open fails,
\* "JSONDecodeError" where json.load does.
parse_manifest(manifest_path) ==
    IF manifest_path \notin DOMAIN fs
    THEN [raised |-> "OSError", digests |-> << >>]
    ELSE LET loaded == JsonLoad(fs[manifest_path])
         IN IF ~loaded.ok
            THEN [raised |-> "JSONDecodeError", digests |-> << >>]
            ELSE [raised |-> "", digests |-> ExtractDigests(loaded.doc)]

\* The values a digest key is given where the parser runs on its own.
DigestValues == {EmptyStr, Digest_aa, Digest_bb}
JsonObjects == {EmptyObject} \cup {ObjectWith(d) : d \in DigestValues}
ManifestDocs ==
    [config : {None} \cup {Some(o) : o \in JsonObjects},
     layers : {None} \cup {Some(l) : l \in SeqsUpTo(JsonObjects, MaxLayers)}]

\* The parser on its own: a document, then its digests.
ParseDocument ==
    /\ pc = "parse"
    /\ digests' = ExtractDigests(manifest)
    /\ pc' = "parsed"
    /\ UNCHANGED <<system, CUSTOM_OUTPUT_DIR, CUSTOM_OLLAMA_BASE_DIR, OUTPUT_DIR,
                   OLLAMA_BASE_DIR, fs, dirs, fs0, dirs0, models, choice_input,
                   last_msg, selected_models, model_data, preview, response, calls,
                   exit_kind, faults, manifest>>

InitParse ==
    /\ pc = "parse"
    /\ system = "Linux"
    /\ CUSTOM_OUTPUT_DIR = NoPath
    /\ CUSTOM_OLLAMA_BASE_DIR = NoPath
    /\ OUTPUT_DIR = DefaultOutputDir
    /\ OLLAMA_BASE_DIR = VarLibOllama
    /\ fs = << >>
    /\ dirs = {}
    /\ fs0 = << >>
    /\ dirs0 = {}
    /\ models = << >>
    /\ choice_input = EmptyStr
    /\ last_msg = NoMsg
    /\ selected_models = << >>
    /\ model_data = << >>
    /\ preview = << >>
    /\ response = NotAsked
    /\ calls = << >>
    /\ exit_kind = ""
    /\ faults = 0
    /\ manifest \in ManifestDocs
    /\ digests = << >>

NextParse == ParseDocument

SpecParse == InitParse /\ [][NextParse]_vars

\* The path resolution on its own: every platform, override and probe result.
InitPaths ==
    /\ pc = "import"
    /\ system \in Systems
    /\ CUSTOM_OUTPUT_DIR \in {NoPath, CustomRoot}
    /\ CUSTOM_OLLAMA_BASE_DIR \in {NoPath, CustomRoot}
    /\ OUTPUT_DIR = NoPath
    /\ OLLAMA_BASE_DIR = NoPath
    /\ fs = << >>
    /\ dirs \in SUBSET {Join(VarLibOllama, BLOBS), Join(VarLibOllamaModels, BLOBS)}
    /\ fs0 = fs
    /\ dirs0 = dirs
    /\ models = << >>
    /\ choice_input = EmptyStr
    /\ last_msg = NoMsg
    /\ selected_models = << >>
    /\ model_data = << >>
    /\ preview = << >>
    /\ response = NotAsked
    /\ calls = << >>
    /\ exit_kind = ""
    /\ faults = 0
    /\ manifest = [config |-> None, layers |-> None]
    /\ digests = << >>

NextPaths == Import

SpecPaths == InitPaths /\ [][NextPaths]_vars

Inventories == {SubSeq(InstalledModels, 1, k) : k \in 0..Len(InstalledModels)}

InitSelect ==
    /\ pc = "select_text"
    /\ system = "Windows"
    /\ CUSTOM_OUTPUT_DIR = NoPath
    /\ CUSTOM_OLLAMA_BASE_DIR = NoPath
    /\ OUTPUT_DIR = DefaultOutputDir
    /\ OLLAMA_BASE_DIR = HomeModels
    /\ fs = << >>
    /\ dirs = {}
    /\ fs0 = << >>
    /\ dirs0 = {}
    /\ models \in Inventories
    /\ choice_input = EmptyStr
    /\ last_msg = NoMsg
    /\ selected_models = << >>
    /\ model_data = << >>
    /\ preview = << >>
    /\ response = NotAsked
    /\ calls = << >>
    /\ exit_kind = ""
    /\ faults = 0
    /\ manifest = [config |-> None, layers |-> None]
    /\ digests = << >>

NextSelect == TypeLine \/ ProcessLine

SpecSelect == InitSelect /\ [][NextSelect]_vars

(***************************************************************************)
(* The file system calls of the exporter.                                  *)
(***************************************************************************)
Parent(p) == SubSeq(p, 1, Len(p) - 1)

\* An injected failure: the operating system refuses op (the index tells
\* which blob); partial tells whether a refused copy had begun writing.
NoFault == [op |-> "none", index |-> 0, partial |-> FALSE]
Hits(fault, op, index) == fault.op = op /\ fault.index = index

\* MakeDirs as it would be without exist_ok=True.
MakeDirsNotExistOk(files, ds, d, refused) ==
    IF refused THEN [raised |-> "OSError", dirs |-> ds]
    ELSE IF d \in DOMAIN files \/ d \in ds THEN [raised |-> "FileExistsError", dirs |-> ds]
    ELSE [raised |-> "", dirs |-> ds \cup Ancestors(d)]

\* Path.mkdir(parents=True, exist_ok=True), lines 182-183.
MakeDirs(files, ds, d, refused) ==
    IF refused THEN [raised |-> "OSError", dirs |-> ds]
    ELSE IF d \in DOMAIN files THEN [raised |-> "FileExistsError", dirs |-> ds]
    ELSE [raised |-> "", dirs |-> ds \cup Ancestors(d)]

\* Copy2 as it would be if the destination were opened for writing without
\* the same-file test: a file copied onto itself is emptied.
Copy2NoSameFileTest(files, ds, src, dst, refused, partial) ==
    IF src \notin DOMAIN files
    THEN [raised |-> "FileNotFoundError", fs |-> files]
    ELSE IF Parent(dst) \notin ds
    THEN [raised |-> "FileNotFoundError", fs |-> files]
    ELSE IF refused
    THEN [raised |-> "OSError",
          fs |-> IF partial \/ src = dst
                 THEN [q \in DOMAIN files \cup {dst} |->
                          IF q = dst THEN "truncated" ELSE files[q]]
                 ELSE files]
    ELSE [raised |-> "",
          fs |-> [q \in DOMAIN files \cup {dst} |->
                     IF q = dst THEN (IF src = dst THEN "truncated" ELSE files[src])
                     ELSE files[q]]]

\* shutil.copy2(src, dst), lines 188 and 197: the content and the metadata of
\* src written over dst; the same file is refused before anything is opened.
Copy2(files, ds, src, dst, refused, partial) ==
    IF src \notin DOMAIN files
    THEN [raised |-> "FileNotFoundError", fs |-> files]
    ELSE IF src = dst
    THEN [raised |-> "SameFileError", fs |-> files]
    ELSE IF Parent(dst) \notin ds
    THEN [raised |-> "FileNotFoundError", fs |-> files]
    ELSE IF refused
    THEN [raised |-> "OSError",
          fs |-> IF partial
                 THEN [q \in DOMAIN files \cup {dst} |->
                          IF q = dst THEN "truncated" ELSE files[q]]
                 ELSE files]
    ELSE [raised |-> "",
          fs |-> [q \in DOMAIN files \cup {dst} |->
                     IF q = dst THEN files[src] ELSE files[q]]]

(***************************************************************************)
(* The exporter (copy_files, lines 167-205).                               *)
(***************************************************************************)
Notice(text, arg) == [text |-> text, arg |-> arg]

\* CopyBlobs as it would be without the test that the source blob exists.
RECURSIVE CopyBlobsUnchecked(_, _, _, _, _, _, _)
CopyBlobsUnchecked(digs, k, blobs_dir, files, ds, fault, notices) ==
    IF k > Len(digs)
    THEN [raised |-> "", fs |-> files, notices |-> notices]
    ELSE LET file_name == BlobFileName(digs[k])
             c == Copy2(files, ds, Join(OLLAMA_BLOB_DIR, <<file_name>>),
                        Join(blobs_dir, <<file_name>>),
                        Hits(fault, "copy_blob", k), fault.partial)
         IN IF c.raised # ""
            THEN [raised |-> c.raised, fs |-> c.fs, notices |-> notices]
            ELSE CopyBlobsUnchecked(digs, k + 1, blobs_dir, c.fs, ds, fault,
                                    Append(notices, Notice("copied", file_name)))

\* Lines 193-200: the loop over the digests, from position k.
RECURSIVE CopyBlobs(_, _, _, _, _, _, _)
CopyBlobs(digs, k, blobs_dir, files, ds, fault, notices) ==
    IF k > Len(digs)
    THEN [raised |-> "", fs |-> files, notices |-> notices]
    ELSE LET file_name == BlobFileName(digs[k])
             blob_file == Join(OLLAMA_BLOB_DIR, <<file_name>>)
         IN IF blob_file \in DOMAIN files \/ blob_file \in ds
            THEN LET dest_blob == Join(blobs_dir, <<file_name>>)
                     c == Copy2(files, ds, blob_file, dest_blob,
                                Hits(fault, "copy_blob", k), fault.partial)
                 IN IF c.raised # ""
                    THEN [raised |-> c.raised, fs |-> c.fs, notices |-> notices]
                    ELSE CopyBlobs(digs, k + 1, blobs_dir, c.fs, ds, fault,
                                   Append(notices, Notice("copied", file_name)))
            ELSE CopyBlobs(digs, k + 1, blobs_dir, files, ds, fault,
                           Append(notices, Notice("Skipped (file not found)", file_name)))

\* Lines 177-202: the body of the try statement.
CopyFilesBody(model_base, version, manifest_path, digs, files, ds, fault) ==
    LET manifest_dir == Join(OUTPUT_DIR, Join(LIBRARY, <<model_base>>))
        blobs_dir == Join(OUTPUT_DIR, BLOBS)
        m1 == MakeDirs(files, ds, manifest_dir, Hits(fault, "mkdir_manifest", 0))
        m2 == MakeDirs(files, m1.dirs, blobs_dir, Hits(fault, "mkdir_blobs", 0))
        dest_manifest == Join(manifest_dir, <<version>>)
        c == Copy2(files, m2.dirs, manifest_path, dest_manifest,
                   Hits(fault, "copy_manifest", 0), fault.partial)
        n1 == <<Notice("Copying manifest", version)>>
        n2 == n1 \o <<Notice("Manifest copied", version), Notice("Copying blobs", version)>>
        b == CopyBlobs(digs, 1, blobs_dir, c.fs, m2.dirs, fault, n2)
    IN IF m1.raised # ""
       THEN [raised |-> m1.raised, fs |-> files, dirs |-> m1.dirs, notices |-> << >>]
       ELSE IF m2.raised # ""
       THEN [raised |-> m2.raised, fs |-> files, dirs |-> m2.dirs, notices |-> << >>]
       ELSE IF c.raised # ""
       THEN [raised |-> c.raised, fs |-> c.fs, dirs |-> m2.dirs, notices |-> n1]
       ELSE IF b.raised # ""
       THEN [raised |-> b.raised, fs |-> b.fs, dirs |-> m2.dirs, notices |-> b.notices]
       ELSE [raised |-> "", fs |-> b.fs, dirs |-> m2.dirs,
             notices |-> Append(b.notices, Notice("Files copied successfully", version))]

\* CatchException as it would be without the except clause.
CatchExceptionNothingCaught(r) == r

\* Lines 181 and 204-205: the try statement; `except Exception` reports what
\* the body raised and the function returns.
CatchException(r) ==
    IF r.raised # ""
    THEN [raised |-> "", fs |-> r.fs, dirs |-> r.dirs,
          notices |-> Append(r.notices, Notice("Error copying files", <<r.raised>>))]
    ELSE r

\* Lines 167-205.  raised names an exception that leaves the function.
copy_files(model_name, manifest_path, digs, files, ds, fault) ==
    LET model_parts == Split(model_name, ":")
    IN IF Len(model_parts) # 2
       THEN [raised |-> "", fs |-> files, dirs |-> ds,
             notices |-> <<Notice("Error: Invalid model name format", model_name)>>]
       ELSE CatchException(CopyFilesBody(model_parts[1], model_parts[2], manifest_path,
                                         digs, files, ds, fault))

(***************************************************************************)
(* prompt_copy (lines 156-165).                                            *)
(***************************************************************************)
\* PromptCopyStep as it would be if every recognised answer returned True.
PromptCopyStepAlwaysTrue(line) ==
    LET answer == Strip(Lower(line))
    IN IF answer \in {<<"y">>, <<"y", "e", "s">>, <<"n">>, <<"n", "o">>} THEN "True"
       ELSE "again"

\* One pass of the loop on the line typed: "True", "False", or "again".
PromptCopyStep(line) ==
    LET answer == Strip(Lower(line))
    IN IF answer \in {<<"y">>, <<"y", "e", "s">>} THEN "True"
       ELSE IF answer \in {<<"n">>, <<"n", "o">>} THEN "False"
       ELSE "again"

Answers ==
    {<<"y">>, <<"y", "e", "s">>, <<"Y">>, <<"n">>, <<"n", "o">>, <<" ", "N", "o">>,
     <<"o", "k">>, EmptyStr}

(***************************************************************************)
(* The orchestrator (main, lines 207-251).                                 *)
(***************************************************************************)
Finish(kind) == pc' = "done" /\ exit_kind' = kind

\* Line 208-211.
ReadInventory ==
    /\ pc = "main"
    /\ \E o \in InventoryOutcomes :
         IF o.exit
         THEN Finish("inventory failed") /\ UNCHANGED models
         ELSE IF o.rows = << >>
         THEN Finish("no models") /\ UNCHANGED models
         ELSE models' = o.rows /\ pc' = "select" /\ UNCHANGED exit_kind
    /\ UNCHANGED <<system, CUSTOM_OUTPUT_DIR, CUSTOM_OLLAMA_BASE_DIR, OUTPUT_DIR,
                   OLLAMA_BASE_DIR, fs, dirs, fs0, dirs0, choice_input, last_msg,
                   selected_models, model_data, preview, response, calls, faults,
                   manifest, digests>>

\* Lines 223-225, after either selection interface returned.
AfterSelection(chosen) ==
    /\ selected_models' = chosen
    /\ IF chosen = << >>
       THEN Finish("no selection")
       ELSE pc' = "resolve" /\ UNCHANGED exit_kind

\* Lines 214-215 and 223-225: the numeric prompt, to the line it accepts (the
\* lines it rejects leave the program where it is).
SelectText ==
    /\ pc = "select"
    /\ \E line \in InputLines :
         LET r == ChooseModelsTextStep(models, line)
         IN r.returned /\ AfterSelection(r.value)
    /\ UNCHANGED <<system, CUSTOM_OUTPUT_DIR, CUSTOM_OLLAMA_BASE_DIR, OUTPUT_DIR,
                   OLLAMA_BASE_DIR, fs, dirs, fs0, dirs0, models, choice_input,
                   last_msg, model_data, preview, response, calls, faults,
                   manifest, digests>>

\* Lines 216-225: the picker, where the platform is not Windows and listpick
\* was imported.
SelectPicker ==
    /\ pc = "select"
    /\ system # "Windows"
    /\ \E selected_indices \in PickerResults(models) :
         AfterSelection(ChooseModelsPicker(models, selected_indices))
    /\ UNCHANGED <<system, CUSTOM_OUTPUT_DIR, CUSTOM_OLLAMA_BASE_DIR, OUTPUT_DIR,
                   OLLAMA_BASE_DIR, fs, dirs, fs0, dirs0, models, choice_input,
                   last_msg, model_data, preview, response, calls, faults,
                   manifest, digests>>

\* ResolveStep as it would be if a model that cannot be resolved were skipped
\* (recorded with no manifest and no digests) and the loop went on.
ResolveStepSkipping(model) ==
    LET located == find_manifest_path(model)
        parsed == parse_manifest(located.path)
    IN /\ model_data' =
            Append(model_data,
                   IF located.raised # "" \/ parsed.raised # ""
                   THEN <<model, NoPath, << >>>>
                   ELSE <<model, located.path, parsed.digests>>)
       /\ UNCHANGED <<pc, exit_kind>>

\* Lines 229-232 for one model of the selection: located, parsed, appended;
\* an exception or exit(1) ends the run.
ResolveStep(model) ==
    LET located == find_manifest_path(model)
        parsed == parse_manifest(located.path)
    IN IF located.raised # ""
       THEN Finish(located.raised) /\ UNCHANGED model_data
       ELSE IF parsed.raised # ""
       THEN Finish(parsed.raised) /\ UNCHANGED model_data
       ELSE /\ model_data' = Append(model_data, <<model, located.path, parsed.digests>>)
            /\ UNCHANGED <<pc, exit_kind>>

Resolve ==
    /\ pc = "resolve"
    /\ IF Len(model_data) < Len(selected_models)
       THEN ResolveStep(selected_models[Len(model_data) + 1])
       ELSE pc' = "preview" /\ UNCHANGED <<model_data, exit_kind>>
    /\ UNCHANGED <<system, CUSTOM_OUTPUT_DIR, CUSTOM_OLLAMA_BASE_DIR, OUTPUT_DIR,
                   OLLAMA_BASE_DIR, fs, dirs, fs0, dirs0, models, choice_input,
                   last_msg, selected_models, preview, response, calls, faults,
                   manifest, digests>>

\* Lines 240-245: the blobs of a model the preview flags as missing.
MissingBlobs(digs) ==
    SelectSeq([k \in DOMAIN digs |-> BlobFileName(digs[k])],
              LAMBDA f : ~Exists(Join(OLLAMA_BLOB_DIR, <<f>>)))

\* Lines 234-245.
Preview ==
    /\ pc = "preview"
    /\ preview' = [k \in DOMAIN model_data |->
                      [model |-> model_data[k][1], missing |-> MissingBlobs(model_data[k][3])]]
    /\ pc' = "prompt"
    /\ UNCHANGED <<system, CUSTOM_OUTPUT_DIR, CUSTOM_OLLAMA_BASE_DIR, OUTPUT_DIR,
                   OLLAMA_BASE_DIR, fs, dirs, fs0, dirs0, models, choice_input,
                   last_msg, selected_models, model_data, response, calls,
                   exit_kind, faults, manifest, digests>>

\* Line 248 and prompt_copy: one line typed at the confirmation prompt.
Prompt ==
    /\ pc = "prompt"
    /\ \E line \in Answers :
         /\ response' = line
         /\ LET r == PromptCopyStep(line)
            IN IF r = "True" THEN pc' = "export" /\ UNCHANGED exit_kind
               ELSE IF r = "False" THEN Finish("declined")
               ELSE UNCHANGED <<pc, exit_kind>>
    /\ UNCHANGED <<system, CUSTOM_OUTPUT_DIR, CUSTOM_OLLAMA_BASE_DIR, OUTPUT_DIR,
                   OLLAMA_BASE_DIR, fs, dirs, fs0, dirs0, models, choice_input,
                   last_msg, selected_models, model_data, preview, calls, faults,
                   manifest, digests>>

\* The failures the operating system can inject into one call of copy_files.
FaultsFor(digs) ==
    {[op |-> o, index |-> 0, partial |-> FALSE] : o \in {"mkdir_manifest", "mkdir_blobs"}}
    \cup {[op |-> "copy_manifest", index |-> 0, partial |-> w] : w \in BOOLEAN}
    \cup {[op |-> "copy_blob", index |-> k, partial |-> w] : k \in DOMAIN digs, w \in BOOLEAN}

\* Lines 249-251 for one entry of model_data: copy_files is called; an
\* exception that leaves it ends the run.
ExportStep(entry, fault) ==
    LET r == copy_files(entry[1], entry[2], entry[3], fs, dirs, fault)
        unhurt == copy_files(entry[1], entry[2], entry[3], fs, dirs, NoFault)
    IN /\ fault = NoFault \/ r # unhurt
       /\ fs' = r.fs
       /\ dirs' = r.dirs
       /\ faults' = IF fault = NoFault THEN faults ELSE faults + 1
       /\ calls' = Append(calls, [model_name |-> entry[1], manifest_path |-> entry[2],
                                  digests |-> entry[3], fault |-> fault,
                                  notices |-> r.notices, raised |-> r.raised,
                                  fs |-> r.fs])
       /\ IF r.raised # "" THEN Finish(r.raised) ELSE UNCHANGED <<pc, exit_kind>>

Export ==
    /\ pc = "export"
    /\ IF Len(calls) < Len(model_data)
       THEN LET entry == model_data[Len(calls) + 1]
            IN \E fault \in {NoFault} \cup (IF faults < MaxFaults THEN FaultsFor(entry[3]) ELSE {}) :
                  ExportStep(entry, fault)
       ELSE Finish("completed") /\ UNCHANGED <<fs, dirs, faults, calls>>
    /\ UNCHANGED <<system, CUSTOM_OUTPUT_DIR, CUSTOM_OLLAMA_BASE_DIR, OUTPUT_DIR,
                   OLLAMA_BASE_DIR, fs0, dirs0, models, choice_input, last_msg,
                   selected_models, model_data, preview, response, manifest, digests>>

\* The exporter with a file system that refuses nothing.
ExportReliable ==
    /\ pc = "export"
    /\ IF Len(calls) < Len(model_data)
       THEN ExportStep(model_data[Len(calls) + 1], NoFault)
       ELSE Finish("completed") /\ UNCHANGED <<fs, dirs, faults, calls>>
    /\ UNCHANGED <<system, CUSTOM_OUTPUT_DIR, CUSTOM_OLLAMA_BASE_DIR, OUTPUT_DIR,
                   OLLAMA_BASE_DIR, fs0, dirs0, models, choice_input, last_msg,
                   selected_models, model_data, preview, response, manifest, digests>>

(***************************************************************************)
(* The machine the program runs on: a Linux host whose model store is      *)
(* /var/lib/ollama, holding the manifest of a:1, perhaps one of b:1, and   *)
(* any of the three blobs.  The destination is ./ollama, empty or left     *)
(* by an earlier export, or (by the override of line 14) the store itself. *)
(***************************************************************************)
SourceManifest(name) == Join(VarLibOllama, Join(LIBRARY, Split(name, ":")))
SourceBlob(digest) == Join(VarLibOllama, Join(BLOBS, <<BlobFileName(digest)>>))
DestManifest(name) == Join(DefaultOutputDir, Join(LIBRARY, Split(name, ":")))
DestBlob(digest) == Join(DefaultOutputDir, Join(BLOBS, <<BlobFileName(digest)>>))

AllDigests == {Digest_aa, Digest_bb, Digest_cc}
BlobContent(d) ==
    CASE d = Digest_aa -> "blob aa" [] d = Digest_bb -> "blob bb" [] d = Digest_cc -> "blob cc"

FileSystem(b1, present, stale) ==
    LET src == {SourceManifest(Name_a1)}
               \cup (IF b1 # "" THEN {SourceManifest(Name_b1)} ELSE {})
               \cup {SourceBlob(d) : d \in present}
        dst == IF stale THEN {DestManifest(Name_a1), DestBlob(Digest_aa)} ELSE {}
    IN [q \in src \cup dst |->
           IF q \in dst THEN "stale"
           ELSE IF q = SourceManifest(Name_a1) THEN "manifest a:1"
           ELSE IF q = SourceManifest(Name_b1) THEN b1
           ELSE BlobContent(CHOOSE d \in present : q = SourceBlob(d))]

Directories(files) ==
    Ancestors(Join(VarLibOllama, BLOBS)) \cup UNION {Ancestors(Parent(q)) : q \in DOMAIN files}

Init ==
    /\ pc = "import"
    /\ system = "Linux"
    /\ CUSTOM_OUTPUT_DIR \in {NoPath, VarLibOllama}
    /\ CUSTOM_OLLAMA_BASE_DIR = NoPath
    /\ OUTPUT_DIR = NoPath
    /\ OLLAMA_BASE_DIR = NoPath
    /\ \E b1 \in {"", "manifest b:1", "not json"}, present \in SUBSET AllDigests,
          stale \in BOOLEAN :
         /\ stale => CUSTOM_OUTPUT_DIR = NoPath
         /\ fs = FileSystem(b1, present, stale)
    /\ dirs = Directories(fs)
    /\ fs0 = fs
    /\ dirs0 = dirs
    /\ models = << >>
    /\ choice_input = EmptyStr
    /\ last_msg = NoMsg
    /\ selected_models = << >>
    /\ model_data = << >>
    /\ preview = << >>
    /\ response = NotAsked
    /\ calls = << >>
    /\ exit_kind = ""
    /\ faults = 0
    /\ manifest = [config |-> None, layers |-> None]
    /\ digests = << >>

Next ==
    \/ Import
    \/ ReadInventory
    \/ SelectText
    \/ SelectPicker
    \/ Resolve
    \/ Preview
    \/ Prompt
    \/ Export

Spec == Init /\ [][Next]_vars

NextReliable ==
    \/ Import
    \/ ReadInventory
    \/ SelectText
    \/ SelectPicker
    \/ Resolve
    \/ Preview
    \/ Prompt
    \/ ExportReliable

SpecReliable == Init /\ [][NextReliable]_vars

(***************************************************************************)
(* Properties.                                                             *)
(***************************************************************************)
YesAnswers == {<<"y">>, <<"y", "e", "s">>, <<"Y">>}
NoAnswers == {<<"n">>, <<"n", "o">>, <<" ", "N", "o">>}

CalledNames == [k \in DOMAIN calls |-> calls[k].model_name]

HasNotice(call, text) == \E i \in DOMAIN call.notices : call.notices[i].text = text
NoticeCount(call, text) ==
    Cardinality({i \in DOMAIN call.notices : call.notices[i].text = text})

\* The files before and after the k-th call of copy_files.
FilesBefore(k) == IF k = 1 THEN fs0 ELSE calls[k - 1].fs
FilesAfter(k) == calls[k].fs

\* C1: nothing is written (no file, no directory, no call of the exporter)
\* unless the confirmation prompt was answered yes; a run answered no ends
\* with the file system as it started; a run answered yes ends having called
\* the exporter once for every entry of the selection, in selection order.
C1_NothingWrittenBeforeYes ==
    /\ response \notin YesAnswers => fs = fs0 /\ dirs = dirs0 /\ calls = << >>
    /\ response \in NoAnswers => pc = "done" /\ exit_kind = "declined"
    /\ response \in YesAnswers =>
         /\ Len(calls) <= Len(selected_models)
         /\ CalledNames = SubSeq(selected_models, 1, Len(calls))
         /\ pc = "done" => CalledNames = selected_models

C1_Witness ==
    /\ pc = "done"
    /\ response \in YesAnswers
    /\ CalledNames = <<Name_b1, Name_a1>>
    /\ fs # fs0

\* The names a file is given from a digest: ':' replaced by '-'.
ExpectedFileName(d) ==
    CASE d = Digest_aa -> <<"s", "-", "a", "a">>
      [] d = Digest_bb -> <<"s", "-", "b", "b">>
      [] d = Digest_cc -> <<"s", "-", "c", "c">>

ExpectedSourceBlob(d) == <<Seg("/"), Seg("var"), Seg("lib"), Seg("ollama"), Seg("blobs"),
                           ExpectedFileName(d)>>
ExpectedDestBlob(d) == OUTPUT_DIR \o <<Seg("blobs"), ExpectedFileName(d)>>

\* The positions of the k-th call's digest list whose source blob is missing.
MissingEntries(k) ==
    {i \in DOMAIN calls[k].digests : ExpectedSourceBlob(calls[k].digests[i]) \notin DOMAIN fs0}

\* What the missing-blob scenario promises of the k-th call.
MissingBlobHandled(k) ==
    LET call == calls[k]
        digs == call.digests
        gone == CHOOSE i \in MissingEntries(k) : TRUE
    IN /\ HasNotice(call, "Manifest copied")
       /\ NoticeCount(call, "Skipped (file not found)") = 1
       /\ ~HasNotice(call, "Error copying files")
       /\ call.raised = ""
       /\ \A i \in DOMAIN digs \ {gone} :
            /\ ExpectedDestBlob(digs[i]) \in DOMAIN FilesAfter(k)
            /\ FilesAfter(k)[ExpectedDestBlob(digs[i])] = fs0[ExpectedSourceBlob(digs[i])]
       /\ ExpectedDestBlob(digs[gone]) \in DOMAIN FilesAfter(k) =>
            /\ ExpectedDestBlob(digs[gone]) \in DOMAIN FilesBefore(k)
            /\ FilesAfter(k)[ExpectedDestBlob(digs[gone])]
                 = FilesBefore(k)[ExpectedDestBlob(digs[gone])]
       /\ pc = "done" => Len(calls) = Len(model_data)

C3_FailureCaughtPerModel ==
    /\ \A k \in DOMAIN calls :
         /\ calls[k].raised = ""
         /\ calls[k].fault # NoFault =>
              calls[k].notices[Len(calls[k].notices)].text = "Error copying files"
    /\ calls # << >> => pc \in {"export", "done"}
    /\ (calls # << >> /\ pc = "done") =>
         exit_kind = "completed" /\ Len(calls) = Len(selected_models)

C3_Witness ==
    /\ pc = "done"
    /\ Len(calls) = 2
    /\ calls[1].fault.op = "copy_manifest"
    /\ HasNotice(calls[1], "Error copying files")
    /\ HasNotice(calls[2], "Files copied successfully")

\* A name with exactly two colon-separated parts holds exactly one colon.
WellFormed(name) == Cardinality({i \in DOMAIN name : name[i] = ":"}) = 1

HasManifest(name) ==
    \E i \in DOMAIN name :
        /\ name[i] = ":"
        /\ (<<Seg("/"), Seg("var"), Seg("lib"), Seg("ollama"), Seg("manifests"),
              Seg("registry.ollama.ai"), Seg("library"),
              SubSeq(name, 1, i - 1), SubSeq(name, i + 1, Len(name))>>) \in DOMAIN fs0

Unresolvable(name) == ~WellFormed(name) \/ ~HasManifest(name)

\* C4: when a selected model is malformed or has no manifest, the run ends in
\* manifest resolution: no preview, no confirmation prompt, no call of the
\* exporter and nothing written, whatever was resolved before it.
C4_UnresolvableEndsRun ==
    (\E k \in DOMAIN selected_models : Unresolvable(selected_models[k])) =>
        /\ pc \in {"resolve", "done"}
        /\ pc = "done" => exit_kind \in {"ValueError", "SystemExit", "JSONDecodeError"}
        /\ \A k \in DOMAIN model_data : ~Unresolvable(model_data[k][1])
        /\ preview = << >>
        /\ response = NotAsked
        /\ calls = << >>
        /\ fs = fs0 /\ dirs = dirs0

C4_Witness ==
    /\ pc = "done"
    /\ exit_kind = "SystemExit"
    /\ selected_models = <<Name_a1, Name_b1>>
    /\ Len(model_data) = 1
    /\ fs = fs0

\* A line that is a comma-separated list of integers, and its numbers.
IsIntegerList(line) ==
    LET pieces == Split(Strip(line), ",")
    IN Strip(line) # EmptyStr /\ \A i \in DOMAIN pieces : ParseInt(pieces[i]).ok
Numbers(line) ==
    LET pieces == Split(Strip(line), ",")
    IN [i \in DOMAIN pieces |-> ParseInt(pieces[i]).val]

\* C5: a line of integers all within 1..rowCount makes the prompt return the
\* names at those positions in the order typed, duplicates kept; a line with
\* any integer out of range is rejected with a message, none of it is
\* accepted, and the prompt repeats.
C5_NumericPrompt ==
    [][(pc = "typed" /\ IsIntegerList(choice_input)) =>
         LET ns == Numbers(choice_input)
         IN IF \A i \in DOMAIN ns : ns[i] \in 1..Len(models)
            THEN /\ pc' = "selected"
                 /\ selected_models' = [i \in DOMAIN ns |-> models[ns[i]][1]]
            ELSE /\ pc' = "select_text"
                 /\ selected_models' = selected_models
                 /\ selected_models' = << >>
                 /\ last_msg'.text = "Invalid choice"]_vars

C5_Witness ==
    /\ pc = "selected"
    /\ choice_input = <<"3", ",", "1">>
    /\ selected_models = <<Name_b1, Name_a1>>

\* The digest of a JSON object, where it holds one.
HasDigestField(o) == o.digest # None

\* C6: the parser returns the config digest, if there is one, then the digest
\* of every layer that has a digest field, in the layers' order, layers
\* without one left out and equal digests kept.  (A config whose digest is the
\* empty text holds no digest.)
C6_DigestList ==
    pc = "parsed" =>
        LET config_part ==
                IF manifest.config # None /\ HasDigestField(manifest.config[1])
                   /\ manifest.config[1].digest[1] # EmptyStr
                THEN <<manifest.config[1].digest[1]>>
                ELSE << >>
            layers == IF manifest.layers = None THEN << >> ELSE manifest.layers[1]
            with_digest == SelectSeq(layers, HasDigestField)
        IN digests = config_part \o [i \in DOMAIN with_digest |-> with_digest[i].digest[1]]

C6_Witness ==
    /\ pc = "parsed"
    /\ manifest = [config |-> Some(ObjectWith(Digest_aa)),
                   layers |-> Some(<<ObjectWith(Digest_bb), ObjectWith(Digest_bb)>>)]
    /\ digests = <<Digest_aa, Digest_bb, Digest_bb>>

\* C7: without an override, on a platform other than Darwin and Windows, the
\* source root is the first of the two probed candidates whose blobs
\* directory exists, so that the blob directory is the directory that was
\* found; the default is used only when neither exists.
C7_ProbedRootSelected ==
    (pc = "main" /\ system \notin {"Darwin", "Windows"} /\ CUSTOM_OLLAMA_BASE_DIR = NoPath) =>
        LET first == <<Seg("/"), Seg("var"), Seg("lib"), Seg("ollama")>>
            second == <<Seg("/"), Seg("var"), Seg("lib"), Seg("ollama"), Seg("models")>>
            found(root) == (root \o <<Seg("blobs")>>) \in dirs
        IN /\ found(first) => OLLAMA_BASE_DIR = first
           /\ (~found(first) /\ found(second)) => OLLAMA_BASE_DIR = second
           /\ (~found(first) /\ ~found(second)) => OLLAMA_BASE_DIR = UsrShareModels
           /\ (found(first) \/ found(second)) => (OLLAMA_BASE_DIR \o <<Seg("blobs")>>) \in dirs

UnderSourceRoot(q) == Len(q) >= 4 /\ SubSeq(q, 1, 4) = <<Seg("/"), Seg("var"), Seg("lib"), Seg("ollama")>>

\* C8: whatever the exporter was called with, and also when the destination
\* root is the source root, every file under the source root exists exactly
\* when it did at the start and has the content it had.
C8_SourceUntouched ==
    \A q \in DOMAIN fs \cup DOMAIN fs0 :
        UnderSourceRoot(q) => q \in DOMAIN fs /\ q \in DOMAIN fs0 /\ fs[q] = fs0[q]

C8_Witness ==
    /\ pc = "done"
    /\ OUTPUT_DIR = OLLAMA_BASE_DIR
    /\ Len(calls) = 2

SameInputs(j, k) ==
    /\ calls[j].model_name = calls[k].model_name
    /\ calls[j].manifest_path = calls[k].manifest_path
    /\ calls[j].digests = calls[k].digests

C10_ExporterNamesWellFormed ==
    \A k \in DOMAIN calls :
        /\ WellFormed(calls[k].model_name)
        /\ ~HasNotice(calls[k], "Error: Invalid model name format")

C10_Witness ==
    /\ pc = "done"
    /\ exit_kind = "completed"
    /\ Len(calls) = 2
    /\ \E i \in DOMAIN models : ~WellFormed(models[i][1])

====
